---- MODULE Spec2Model ----
(***************************************************************************)
(* Model of mcp_client/base.py: discovery of the tools of the configured   *)
(* MCP servers (convert_mcp_to_langchain_tools, get_mcp_tools), the tool   *)
(* adapter built for each of them (create_mcp_tool.McpTool) and the        *)
(* invocation of an adapter (BaseTool argument validation, McpTool._arun). *)
(* Every stdio_client/ClientSession pair is one Session; the provider      *)
(* process behind it is the environment.                                   *)
(***************************************************************************)
EXTENDS Integers, Sequences, FiniteSets, TLC

\* ---------------------------------------------------------------- bounds
MaxProviders == 2      \* entries of the registry (mcpServers)
MaxCatalog == 2        \* tools in one list_tools() answer
MaxTasks == 2          \* callers that may invoke concurrently
MaxInvocations == 2    \* invocations started in one behaviour

\* ------------------------------------------------------------ data model
Fields == {"text"}
JsonValues == {[type |-> "string", val |-> "hi"], [type |-> "number", val |-> "5"]}

\* keyword arguments of one invocation: a mapping of some fields to values
KwargsSet == UNION {[S -> JsonValues] : S \in SUBSET Fields}

\* result.content of a CallToolResult
Contents == {"c1", "c2"}

\* names and values of environment variables; "" is the empty value
EnvNames == {"PATH", "KEY"}
ConfigEnvs == UNION {[S -> {"", "cfg"}] : S \in SUBSET EnvNames}

\* os.environ of the process: some of the variables, each with a value
Environs == UNION {[S -> {"proc"}] : S \in SUBSET EnvNames}

\* what os.getenv gives for a variable that is not set
None == "None"

\* the entries mcpServers may hold for the provider at one position: the
\* command, and "args" and "env" each present or missing
Commands == <<"cmdA", "cmdB", "cmdC">>
ConfigEntries(command) ==
    LET base == [f \in {"command"} |-> command]
        withArgs == {base} \cup {[f \in {"command", "args"} |->
                                    IF f = "command" THEN command ELSE a] :
                                 a \in {<<>>, <<"-v">>}}
    IN  withArgs \cup
        {[f \in (DOMAIN c) \cup {"env"} |-> IF f = "env" THEN e ELSE c[f]] :
            c \in withArgs, e \in ConfigEnvs}

\* server_config["mcpServers"].values(), in the order of the file
RECURSIVE ConfigsOfLen(_)
ConfigsOfLen(n) ==
    IF n = 0 THEN {<<>>}
    ELSE {Append(c, e) : c \in ConfigsOfLen(n - 1), e \in ConfigEntries(Commands[n])}

ServerConfigs == UNION {ConfigsOfLen(n) : n \in 1..MaxProviders}

\* the configuration the discovery and the invocations are explored with
MainConfig ==
    << [f \in {"command"} |-> "cmdA"],
       [f \in {"command", "args", "env"} |->
          CASE f = "command" -> "cmdB"
            [] f = "args" -> <<"-v">>
            [] OTHER -> [k \in {"KEY"} |-> ""]],
       [f \in {"command", "env"} |->
          IF f = "command" THEN "cmdC" ELSE [k \in {"PATH"} |-> "cfg"]] >>
MainEnviron == [k \in EnvNames |-> "proc"]

\* os.getenv(key)
getenv(environ, key) == IF key \in DOMAIN environ THEN environ[key] ELSE None

\* config.get(key, default)
get(config, key, default) == IF key \in DOMAIN config THEN config[key] ELSE default

\* {**config.get("env", {}), "PATH": os.getenv("PATH")}
MergedEnv(config_env, environ) ==
    [k \in (DOMAIN config_env) \cup {"PATH"} |->
        IF k = "PATH" THEN getenv(environ, "PATH") ELSE config_env[k]]

\* the loop at lines 107-109: an empty value is replaced by the process's
\* variable of the same name when there is one
ResolvedEnv(env, environ) ==
    [k \in DOMAIN env |->
        IF env[k] = "" /\ k \in DOMAIN environ THEN environ[k] ELSE env[k]]

\* one StdioServerParameters; a value None in env raises (len(None), and
\* env is a mapping of strings to strings)
ServerParameter(config, environ) ==
    LET env == MergedEnv(get(config, "env", <<>>), environ)
    IN  IF \E k \in DOMAIN env : env[k] = None
        THEN [ok |-> FALSE]
        ELSE [ok |-> TRUE,
              param |-> [command |-> config["command"],
                         args |-> get(config, "args", <<>>),
                         env |-> ResolvedEnv(env, environ)]]

\* create_server_parameters: one descriptor per entry, in order, or the
\* exception of the first entry that raises
RECURSIVE create_server_parameters(_, _)
create_server_parameters(configs, environ) ==
    IF configs = <<>> THEN [ok |-> TRUE, server_parameters |-> <<>>]
    ELSE LET p == ServerParameter(Head(configs), environ)
             rest == create_server_parameters(Tail(configs), environ)
         IN  IF ~p.ok \/ ~rest.ok THEN [ok |-> FALSE, server_parameters |-> <<>>]
             ELSE [ok |-> TRUE, server_parameters |-> <<p.param>> \o rest.server_parameters]

\* inputSchema of a tool; "construct" tells whether jsonschema_to_pydantic
\* can represent it
EchoSchema == [construct |-> "object", properties |-> [f \in {"text"} |-> "string"],
               required |-> {"text"}]
PingSchema == [construct |-> "object", properties |-> [f \in {"text"} |-> "string"],
               required |-> {}]
RawSchema == [construct |-> "unsupported", properties |-> [f \in {} |-> "string"],
              required |-> {}]

\* types.Tool values a provider may declare
ToolSchemas ==
    { [name |-> "echo", description |-> "Echo the text", inputSchema |-> EchoSchema],
      [name |-> "ping", description |-> "Ping", inputSchema |-> PingSchema],
      [name |-> "raw", description |-> "Raw", inputSchema |-> RawSchema] }

RECURSIVE SeqsUpTo(_, _)
SeqsUpTo(S, n) ==
    IF n = 0 THEN {<<>>}
    ELSE LET shorter == SeqsUpTo(S, n - 1)
         IN  shorter \cup {Append(s, x) : s \in {q \in shorter : Len(q) = n - 1}, x \in S}

\* ListToolsResult.tools: a provider declares each of its tools once
Catalogs ==
    {c \in SeqsUpTo(ToolSchemas, MaxCatalog) :
        \A i, j \in DOMAIN c : c[i].name = c[j].name => i = j}

NoError == [kind |-> "none", content |-> "", fields |-> {}, replyTo |-> 0]

\* ------------------------------------------------------- schema converter
\* jsonschema_to_pydantic(tool_schema.inputSchema): the pydantic model, or a
\* conversion error for a schema it cannot represent
jsonschema_to_pydantic(schema) ==
    IF schema.construct = "object"
    THEN [ok |-> TRUE, properties |-> schema.properties, required |-> schema.required]
    ELSE [ok |-> FALSE, properties |-> schema.properties, required |-> schema.required]

\* the fields pydantic reports for a keyword mapping: required fields that
\* are missing and present fields of the wrong type
Offending(model, kwargs) ==
    {f \in model.required : f \notin DOMAIN kwargs}
    \cup {f \in (DOMAIN kwargs) \cap (DOMAIN model.properties) :
            kwargs[f].type # model.properties[f]}

\* create_mcp_tool: the McpTool instance, or the conversion error
create_mcp_tool(tool_schema, server_params) ==
    LET input_model == jsonschema_to_pydantic(tool_schema.inputSchema)
    IN  IF ~input_model.ok
        THEN [ok |-> FALSE]
        ELSE [ok |-> TRUE,
              name |-> tool_schema.name,
              description |-> tool_schema.description,
              args_schema |-> input_model,
              mcp_server_params |-> server_params]

\* variant: the adapter is put in front of the list
PrependTool(mcp_tools, t) == <<t>> \o mcp_tools

\* mcp_tools.append(create_mcp_tool(tool, server_param))
AppendTool(mcp_tools, t) == Append(mcp_tools, t)

\* the for loop of get_mcp_tools: adapters appended one per tool, in
\* catalog order; the first conversion error ends the loop with the
\* exception
RECURSIVE BuildTools(_, _, _)
BuildTools(tools, server_param, mcp_tools) ==
    IF tools = <<>> THEN [ok |-> TRUE, mcp_tools |-> mcp_tools]
    ELSE LET t == create_mcp_tool(Head(tools), server_param)
         IN  IF ~t.ok THEN [ok |-> FALSE, mcp_tools |-> mcp_tools]
             ELSE BuildTools(Tail(tools), server_param, AppendTool(mcp_tools, t))

\* variant: a tool whose name is already in the list is left out
ExtendDistinct(langchain_tools, tools) ==
    langchain_tools \o
    SelectSeq(tools, LAMBDA x : \A i \in DOMAIN langchain_tools :
                                  langchain_tools[i].name # x.name)

\* langchain_tools.extend(tools)
Extend(langchain_tools, tools) == langchain_tools \o tools

\* ------------------------------------------------------ session transport
\* One Session is one "async with stdio_client(...)" around one
\* "async with ClientSession(...)": inv and task name the invocation that
\* opened it (0 for discovery), sent is every request written after the
\* handshake, received every response read, inbox/outbox are the requests
\* and responses in flight.
NewSession(kind, inv, task, param) ==
    [kind |-> kind, inv |-> inv, task |-> task, param |-> param,
     state |-> "Launching", proc |-> FALSE, channel |-> FALSE,
     sent |-> <<>>, received |-> <<>>, inbox |-> <<>>, outbox |-> <<>>]

\* variant: the Session is usable as soon as the process runs, without the
\* handshake
LaunchedReady(s) == [s EXCEPT !.state = "Ready", !.proc = TRUE, !.channel = TRUE]

\* stdio_client.__aenter__ returned: the process runs, its stdin/stdout
\* are the channel
Launched(s) == [s EXCEPT !.state = "Handshaking", !.proc = TRUE, !.channel = TRUE]

\* session.initialize() returned
Initialized(s) == [s EXCEPT !.state = "Ready"]

\* a request written to the channel
Sent(s, req) ==
    [s EXCEPT !.state = "InFlight", !.sent = Append(@, req), !.inbox = Append(@, req)]

\* variant: the Session is torn down as soon as the response is read
ReceivedThenClosed(s) ==
    [s EXCEPT !.state = "Closed", !.received = Append(@, Head(s.outbox)),
              !.outbox = <<>>, !.inbox = <<>>, !.proc = FALSE, !.channel = FALSE]

\* the response taken from the channel; the body of the with block is done
Received(s) ==
    [s EXCEPT !.state = "Closing", !.received = Append(@, Head(s.outbox)),
              !.outbox = Tail(@)]

\* a transport-level fault; the process may or may not have died with it
Faulted(s, died) == [s EXCEPT !.state = "Failed", !.proc = @ /\ ~died]

\* the caller's cancellation delivered at the await the coroutine is at
Cancelled(s) == [s EXCEPT !.state = "Closing"]

\* variant: the cleanup is skipped after a transport fault
ExitOnSuccessOnly(s) ==
    IF s.state = "Failed" THEN s
    ELSE [s EXCEPT !.state = "Closed", !.proc = FALSE, !.channel = FALSE,
                   !.inbox = <<>>, !.outbox = <<>>]

\* variant: the cleanup handles exceptions but not the cancellation
ExitUnlessCancelled(s) ==
    IF s.state = "Closing" /\ s.received = <<>> THEN s
    ELSE [s EXCEPT !.state = IF @ = "Failed" THEN "Failed" ELSE "Closed",
                   !.proc = FALSE, !.channel = FALSE,
                   !.inbox = <<>>, !.outbox = <<>>]

\* variant: the with blocks are left without waiting for the process to
\* terminate
ExitDetached(s) ==
    [s EXCEPT !.state = IF @ = "Failed" THEN "Failed" ELSE "Closed",
              !.channel = FALSE, !.inbox = <<>>, !.outbox = <<>>]

\* __aexit__ of both context managers: it runs on every way out of the with
\* block, closes the channel and terminates the process
ExitContext(s) ==
    [s EXCEPT !.state = IF @ = "Failed" THEN "Failed" ELSE "Closed",
              !.proc = FALSE, !.channel = FALSE,
              !.inbox = <<>>, !.outbox = <<>>]

ListRequest ==
    [method |-> "tools/list", name |-> "", arguments |-> [f \in {} |-> 0], inv |-> 0]

CallRequest(name, kwargs, inv) ==
    [method |-> "tools/call", name |-> name, arguments |-> kwargs, inv |-> inv]

IsOpen(s) == s.proc \/ s.channel \/ s.state \notin {"Closed", "Failed"}

\* ------------------------------------------------------------------ state
VARIABLES
    server_config,    \* the provider entries of the loaded configuration
    environ,          \* os.environ of the process
    server_params,    \* the registry: launch descriptors in configuration order
    sessions,         \* every Session ever opened, by session id
    agg,              \* convert_mcp_to_langchain_tools / get_mcp_tools in progress
    langchain_tools,  \* the list convert_mcp_to_langchain_tools accumulates
    returned,         \* what convert_mcp_to_langchain_tools handed to its caller
    tasks,            \* the callers' invocations (BaseTool.arun -> McpTool._arun)
    invocations       \* number of invocations started

vars == <<server_config, environ, server_params, sessions, agg, langchain_tools, returned, tasks, invocations>>

Tasks == 1..MaxTasks
Waiting == {"launching", "handshaking", "ready", "inflight"}

IdleTask ==
    [pc |-> "idle", inv |-> 0, adapter |-> 0, kwargs |-> [f \in {} |-> 0], sid |-> 0,
     spawned |-> 0, pending |-> NoError, result |-> NoError]

\* the state when initialise_tools has loaded the configuration
Start(configs, environs) ==
    /\ server_config \in configs
    /\ environ \in environs
    /\ server_params = <<>>
    /\ sessions = <<>>
    /\ agg = [pc |-> "start", k |-> 1, sid |-> 0, mcp_tools |-> <<>>, pending |-> NoError]
    /\ langchain_tools = <<>>
    /\ returned = [status |-> "pending", tools |-> <<>>]
    /\ tasks = [t \in Tasks |-> IdleTask]
    /\ invocations = 0

Init == Start({SubSeq(MainConfig, 1, n) : n \in 1..MaxProviders}, {MainEnviron})

TransportError(step) ==
    [kind |-> "TransportError", content |-> step, fields |-> {}, replyTo |-> 0]
ConversionError == [kind |-> "ConversionError", content |-> "", fields |-> {}, replyTo |-> 0]

\* the step a coroutine is suspended at, as the transport fault names it
StepOf(pc) ==
    CASE pc = "launching" -> "launch"
      [] pc = "handshaking" -> "handshake"
      [] pc = "ready" -> "send"
      [] OTHER -> "await"

ConfigError == [kind |-> "ConfigError", content |-> "", fields |-> {}, replyTo |-> 0]

\* ------------------------------------------------ discovery and aggregation
\* server_params = create_server_parameters(server_config), then the call
\* of convert_mcp_to_langchain_tools up to its loop
CreateServerParameters ==
    /\ agg.pc = "start"
    /\ LET made == create_server_parameters(server_config, environ)
       IN  /\ server_params' = made.server_parameters
           /\ agg' = IF made.ok THEN [agg EXCEPT !.pc = "loop"]
                     ELSE [agg EXCEPT !.pc = "failed", !.pending = ConfigError]
    /\ UNCHANGED <<server_config, environ, sessions, langchain_tools, returned, tasks,
                   invocations>>

\* variant: the failed provider is skipped and the loop goes on
SkipProvider(a) ==
    [a EXCEPT !.pc = "loop", !.k = @ + 1, !.sid = 0, !.mcp_tools = <<>>,
              !.pending = NoError]

\* an exception of get_mcp_tools is caught neither by
\* convert_mcp_to_langchain_tools nor by initialise_tools: the loop is
\* left and nothing is returned
PropagateDiscoveryError(a) ==
    [a EXCEPT !.pc = "failed", !.sid = 0, !.mcp_tools = <<>>]

\* for server_param in server_params: get_mcp_tools(server_param) up to
\* its first await, the launch of the provider
DiscOpen ==
    /\ agg.pc = "loop"
    /\ agg.k <= Len(server_params)
    /\ sessions' = Append(sessions, NewSession("discovery", 0, 0, server_params[agg.k]))
    /\ agg' = [agg EXCEPT !.pc = "launching", !.sid = Len(sessions) + 1,
                          !.mcp_tools = <<>>]
    /\ UNCHANGED <<server_config, environ, server_params, langchain_tools, returned, tasks, invocations>>

\* stdio_client(server_param) entered
DiscLaunch ==
    /\ agg.pc = "launching"
    /\ sessions' = [sessions EXCEPT ![agg.sid] = Launched(@)]
    /\ agg' = [agg EXCEPT !.pc = "handshaking"]
    /\ UNCHANGED <<server_config, environ, server_params, langchain_tools, returned, tasks, invocations>>

\* ClientSession entered and session.initialize() answered
DiscInitialize ==
    /\ agg.pc = "handshaking"
    /\ sessions[agg.sid].proc
    /\ sessions' = [sessions EXCEPT ![agg.sid] = Initialized(@)]
    /\ agg' = [agg EXCEPT !.pc = "ready"]
    /\ UNCHANGED <<server_config, environ, server_params, langchain_tools, returned, tasks, invocations>>

\* session.list_tools(): the request is written
DiscSendList ==
    /\ agg.pc = "ready"
    /\ sessions' = [sessions EXCEPT ![agg.sid] = Sent(@, ListRequest)]
    /\ agg' = [agg EXCEPT !.pc = "inflight"]
    /\ UNCHANGED <<server_config, environ, server_params, langchain_tools, returned, tasks, invocations>>

\* the provider process answers the list request with its catalog
ProviderList(sid) ==
    /\ sessions[sid].proc
    /\ sessions[sid].inbox # <<>>
    /\ Head(sessions[sid].inbox).method = "tools/list"
    /\ \E catalog \in Catalogs :
         sessions' = [sessions EXCEPT
            ![sid].inbox = Tail(@),
            ![sid].outbox = Append(@, [isError |-> FALSE, content |-> "",
                                       tools |-> catalog,
                                       replyTo |-> Head(sessions[sid].inbox).inv])]
    /\ UNCHANGED <<server_config, environ, server_params, agg, langchain_tools, returned, tasks, invocations>>

\* list_tools() returned; the for loop builds the adapters inside the with
\* block, then the block is left (by its end or by the conversion error)
DiscReceive ==
    /\ agg.pc = "inflight"
    /\ sessions[agg.sid].outbox # <<>>
    /\ LET tools == Head(sessions[agg.sid].outbox).tools
           built == BuildTools(tools, server_params[agg.k], agg.mcp_tools)
       IN  /\ agg' = [agg EXCEPT !.pc = "closing",
                                 !.mcp_tools = built.mcp_tools,
                                 !.pending = IF built.ok THEN NoError ELSE ConversionError]
           /\ sessions' = [sessions EXCEPT ![agg.sid] = Received(@)]
    /\ UNCHANGED <<server_config, environ, server_params, langchain_tools, returned, tasks, invocations>>

\* a transport fault at the await get_mcp_tools is suspended at
DiscFault ==
    /\ agg.pc \in Waiting
    /\ \E died \in BOOLEAN :
         sessions' = [sessions EXCEPT ![agg.sid] = Faulted(@, died)]
    /\ agg' = [agg EXCEPT !.pc = "closing", !.pending = TransportError(StepOf(agg.pc))]
    /\ UNCHANGED <<server_config, environ, server_params, langchain_tools, returned, tasks, invocations>>

\* both with blocks are left; get_mcp_tools returns mcp_tools, which
\* convert_mcp_to_langchain_tools appends, or its exception propagates
DiscExit ==
    /\ agg.pc = "closing"
    /\ sessions' = [sessions EXCEPT ![agg.sid] = ExitContext(@)]
    /\ IF agg.pending.kind = "none"
       THEN /\ langchain_tools' = Extend(langchain_tools, agg.mcp_tools)
            /\ agg' = [agg EXCEPT !.pc = "loop", !.k = @ + 1, !.sid = 0,
                                  !.mcp_tools = <<>>]
       ELSE /\ agg' = PropagateDiscoveryError(agg)
            /\ UNCHANGED langchain_tools
    /\ UNCHANGED <<server_config, environ, server_params, returned, tasks, invocations>>

\* return langchain_tools
AggReturn ==
    /\ agg.pc = "loop"
    /\ agg.k > Len(server_params)
    /\ agg' = [agg EXCEPT !.pc = "done"]
    /\ returned' = [status |-> "ok", tools |-> langchain_tools]
    /\ UNCHANGED <<server_config, environ, server_params, sessions, langchain_tools, tasks, invocations>>

\* -------------------------------------------------------------- invocation
ValidationError(fields) ==
    [kind |-> "ValidationError", content |-> "", fields |-> fields, replyTo |-> 0]
CancelledError == [kind |-> "Cancelled", content |-> "", fields |-> {}, replyTo |-> 0]

\* variant: the tool has no args_schema, every mapping passes
NoValidation(adapter, kwargs) == TRUE

\* BaseTool parses the caller's arguments with args_schema (the model set
\* at line 44) before it calls _arun; a validation error is raised to the
\* caller instead
ValidationGate(adapter, kwargs) == Offending(adapter.args_schema, kwargs) = {}

\* variant: a live Session to the same provider is shared
ReuseSession(ss, inv, t, param) ==
    LET live == {i \in DOMAIN ss : ss[i].kind = "invoke" /\ ss[i].param = param
                                   /\ ss[i].state \notin {"Closed", "Failed", "Closing"}}
    IN  IF live # {}
        THEN [sid |-> CHOOSE i \in live : TRUE, sessions |-> ss]
        ELSE [sid |-> Len(ss) + 1,
              sessions |-> Append(ss, NewSession("invoke", inv, t, param))]

\* variant: the adapter keeps its Session and uses it again
ReuseLastSession(ss, inv, t, param) ==
    LET mine == {i \in DOMAIN ss : ss[i].kind = "invoke" /\ ss[i].param = param}
    IN  IF mine # {}
        THEN [sid |-> CHOOSE i \in mine : \A j \in mine : j <= i, sessions |-> ss]
        ELSE [sid |-> Len(ss) + 1,
              sessions |-> Append(ss, NewSession("invoke", inv, t, param))]

\* variant: the adapters share the launch descriptor of the first provider
OpenFirstProvider(ss, inv, t, param) ==
    [sid |-> Len(ss) + 1,
     sessions |-> Append(ss, NewSession("invoke", inv, t, server_params[1]))]

\* async with stdio_client(self.mcp_server_params): every call of _arun
\* makes its own client, which lives in the frame of that call
OpenSession(ss, inv, t, param) ==
    [sid |-> Len(ss) + 1, sessions |-> Append(ss, NewSession("invoke", inv, t, param))]

\* variant: the tools are listed again before the call
RelistThenCall(name, kwargs, inv) == <<ListRequest, CallRequest(name, kwargs, inv)>>

\* the requests _arun sends once the session is initialized
InvokeRequests(name, kwargs, inv) == <<CallRequest(name, kwargs, inv)>>

RECURSIVE SendAll(_, _)
SendAll(s, reqs) ==
    IF reqs = <<>> THEN s ELSE SendAll(Sent(s, Head(reqs)), Tail(reqs))

\* variant: the content is returned whatever isError says
CallOutcomeLenient(result) ==
    [kind |-> "ok", content |-> result.content, fields |-> {}, replyTo |-> result.replyTo]

\* if result.isError: raise ToolException(result.content);
\* return result.content
CallOutcome(result) ==
    IF result.isError
    THEN [kind |-> "RemoteExecutionError", content |-> result.content, fields |-> {},
          replyTo |-> result.replyTo]
    ELSE [kind |-> "ok", content |-> result.content, fields |-> {},
          replyTo |-> result.replyTo]

\* variant: every exception is wrapped in ToolException
FaultAsToolException(step) ==
    [kind |-> "RemoteExecutionError", content |-> step, fields |-> {}, replyTo |-> 0]

\* _arun catches nothing: the exception of the transport leaves it as it is
FaultOutcome(step) == TransportError(step)

\* tool.arun(kwargs): validation, then _arun up to its first await
Invoke(t, a, kwargs) ==
    /\ returned.status = "ok"
    /\ tasks[t].pc \in {"idle", "returned"}
    /\ invocations < MaxInvocations
    /\ invocations' = invocations + 1
    /\ LET adapter == returned.tools[a]
           inv == invocations + 1
           started == [IdleTask EXCEPT !.inv = inv, !.adapter = a, !.kwargs = kwargs]
       IN  IF ValidationGate(adapter, kwargs)
           THEN LET o == OpenSession(sessions, inv, t, adapter.mcp_server_params)
                IN  /\ sessions' = o.sessions
                    /\ tasks' = [tasks EXCEPT ![t] =
                                   [started EXCEPT !.pc = "launching", !.sid = o.sid]]
           ELSE /\ tasks' = [tasks EXCEPT ![t] =
                               [started EXCEPT !.pc = "returned",
                                  !.result = ValidationError(
                                                Offending(adapter.args_schema, kwargs))]]
                /\ UNCHANGED sessions
    /\ UNCHANGED <<server_config, environ, server_params, agg, langchain_tools, returned>>

\* stdio_client(self.mcp_server_params) entered: the process is spawned
TaskLaunch(t) ==
    /\ tasks[t].pc = "launching"
    /\ sessions' = [sessions EXCEPT ![tasks[t].sid] = Launched(@)]
    /\ tasks' = [tasks EXCEPT ![t].pc = "handshaking", ![t].spawned = @ + 1]
    /\ UNCHANGED <<server_config, environ, server_params, agg, langchain_tools, returned, invocations>>

\* ClientSession entered and session.initialize() answered
TaskInitialize(t) ==
    /\ tasks[t].pc = "handshaking"
    /\ sessions[tasks[t].sid].proc
    /\ sessions' = [sessions EXCEPT ![tasks[t].sid] = Initialized(@)]
    /\ tasks' = [tasks EXCEPT ![t].pc = "ready"]
    /\ UNCHANGED <<server_config, environ, server_params, agg, langchain_tools, returned, invocations>>

\* session.call_tool(self.name, arguments=kwargs): the request is written
TaskSend(t) ==
    /\ tasks[t].pc = "ready"
    /\ LET adapter == returned.tools[tasks[t].adapter]
       IN  sessions' = [sessions EXCEPT ![tasks[t].sid] =
              SendAll(@, InvokeRequests(adapter.name, tasks[t].kwargs, tasks[t].inv))]
    /\ tasks' = [tasks EXCEPT ![t].pc = "inflight"]
    /\ UNCHANGED <<server_config, environ, server_params, agg, langchain_tools, returned, invocations>>

\* the provider process answers a call request: a result or a reported error
ProviderCall(sid) ==
    /\ sessions[sid].proc
    /\ sessions[sid].inbox # <<>>
    /\ Head(sessions[sid].inbox).method = "tools/call"
    /\ \E isError \in BOOLEAN, content \in Contents :
         sessions' = [sessions EXCEPT
            ![sid].inbox = Tail(@),
            ![sid].outbox = Append(@, [isError |-> isError, content |-> content,
                                       tools |-> <<>>,
                                       replyTo |-> Head(sessions[sid].inbox).inv])]
    /\ UNCHANGED <<server_config, environ, server_params, agg, langchain_tools, returned, tasks, invocations>>

\* call_tool() returned: the content is returned or raised as ToolException
TaskReceive(t) ==
    /\ tasks[t].pc = "inflight"
    /\ sessions[tasks[t].sid].outbox # <<>>
    /\ tasks' = [tasks EXCEPT ![t].pc = "closing",
                              ![t].pending = CallOutcome(Head(sessions[tasks[t].sid].outbox))]
    /\ sessions' = [sessions EXCEPT ![tasks[t].sid] = Received(@)]
    /\ UNCHANGED <<server_config, environ, server_params, agg, langchain_tools, returned, invocations>>

\* a transport fault at the await _arun is suspended at
TaskFault(t) ==
    /\ tasks[t].pc \in Waiting
    /\ \E died \in BOOLEAN :
         sessions' = [sessions EXCEPT ![tasks[t].sid] = Faulted(@, died)]
    /\ tasks' = [tasks EXCEPT ![t].pc = "closing",
                              ![t].pending = FaultOutcome(StepOf(tasks[t].pc))]
    /\ UNCHANGED <<server_config, environ, server_params, agg, langchain_tools, returned, invocations>>

\* the caller cancels the invocation at the await _arun is suspended at
TaskCancel(t) ==
    /\ tasks[t].pc \in Waiting
    /\ sessions' = [sessions EXCEPT ![tasks[t].sid] = Cancelled(@)]
    /\ tasks' = [tasks EXCEPT ![t].pc = "closing", ![t].pending = CancelledError]
    /\ UNCHANGED <<server_config, environ, server_params, agg, langchain_tools, returned, invocations>>

\* both with blocks of _arun are left; the value or the exception reaches
\* the caller
TaskExit(t) ==
    /\ tasks[t].pc = "closing"
    /\ sessions' = [sessions EXCEPT ![tasks[t].sid] = ExitContext(@)]
    /\ tasks' = [tasks EXCEPT ![t].pc = "returned", ![t].result = tasks[t].pending,
                              ![t].pending = NoError]
    /\ UNCHANGED <<server_config, environ, server_params, agg, langchain_tools, returned, invocations>>

\* ---------------------------------------------------------- specification
Next ==
    \/ CreateServerParameters
    \/ DiscOpen
    \/ DiscLaunch
    \/ DiscInitialize
    \/ DiscSendList
    \/ \E sid \in DOMAIN sessions : ProviderList(sid)
    \/ DiscReceive
    \/ DiscFault
    \/ DiscExit
    \/ AggReturn
    \/ \E t \in Tasks, a \in DOMAIN returned.tools, kwargs \in KwargsSet : Invoke(t, a, kwargs)
    \/ \E t \in Tasks : TaskLaunch(t)
    \/ \E t \in Tasks : TaskInitialize(t)
    \/ \E t \in Tasks : TaskSend(t)
    \/ \E sid \in DOMAIN sessions : ProviderCall(sid)
    \/ \E t \in Tasks : TaskReceive(t)
    \/ \E t \in Tasks : TaskFault(t)
    \/ \E t \in Tasks : TaskCancel(t)
    \/ \E t \in Tasks : TaskExit(t)

Spec == Init /\ [][Next]_vars

\* ------------------------------------------------------------ properties
InvokeSessions == {i \in DOMAIN sessions : sessions[i].kind = "invoke"}
DiscoverySessions == {i \in DOMAIN sessions : sessions[i].kind = "discovery"}

\* the adapter an invocation was started on
AdapterOf(T) == returned.tools[T.adapter]

\* C1: an invocation whose arguments fail the adapter's validator ends at
\* once with a validation error naming the offending fields; it has no
\* Session and has spawned no provider process.
C1_ValidationFailureOpensNoSession ==
    \A t \in Tasks :
        LET T == tasks[t]
        IN  (T.inv > 0 /\ Offending(AdapterOf(T).args_schema, T.kwargs) # {})
            => /\ T.pc = "returned"
               /\ T.result.kind = "ValidationError"
               /\ T.result.fields = Offending(AdapterOf(T).args_schema, T.kwargs)
               /\ T.sid = 0
               /\ T.spawned = 0
               /\ \A i \in DOMAIN sessions : sessions[i].inv # T.inv

C1_Witness ==
    \E t \in Tasks :
        /\ tasks[t].result.kind = "ValidationError"
        /\ tasks[t].kwargs \in [{"text"} -> JsonValues]
        /\ invocations = MaxInvocations

\* C2: a Session opened by an invocation is open (process alive, channel
\* open, or in a state other than Closed and Failed) only while that
\* invocation is still running; once the invocations have returned no such
\* Session is open and no provider process is alive.
C2_SessionsTornDownBeforeReturn ==
    \A i \in InvokeSessions :
        IsOpen(sessions[i])
        => \E t \in Tasks :
              /\ tasks[t].inv = sessions[i].inv
              /\ tasks[t].sid = i
              /\ tasks[t].pc \in Waiting \cup {"closing"}

C2_Witness ==
    /\ invocations = MaxInvocations
    /\ \A t \in Tasks : tasks[t].pc = "returned"
    /\ \E t \in Tasks : /\ tasks[t].result.kind = "TransportError"
                        /\ tasks[t].result.content = "await"
                        /\ sessions[tasks[t].sid].state = "Failed"
    /\ \E t \in Tasks : tasks[t].result.kind = "RemoteExecutionError"

\* C3: when the discovery of a provider leaves its with block without an
\* error, the adapters it has built are one per tool of the catalog the
\* provider returned, in catalog order, each with the name and the
\* description of its tool.
C3_OneAdapterPerOperation ==
    (agg.pc = "closing" /\ agg.pending.kind = "none")
    => LET catalog == sessions[agg.sid].received[1].tools
       IN  /\ Len(agg.mcp_tools) = Len(catalog)
           /\ \A i \in DOMAIN catalog :
                 /\ agg.mcp_tools[i].name = catalog[i].name
                 /\ agg.mcp_tools[i].description = catalog[i].description

C3_Witness ==
    /\ agg.pc = "closing"
    /\ agg.pending.kind = "none"
    /\ Len(agg.mcp_tools) = 2
    /\ agg.mcp_tools[1].name = "ping"
    /\ agg.mcp_tools[2].name = "echo"

\* the catalog provider k returned to its discovery Session (Session k)
CatalogOf(k) == sessions[k].received[1].tools

RECURSIVE CatalogLengths(_)
CatalogLengths(k) == IF k = 0 THEN 0 ELSE CatalogLengths(k - 1) + Len(CatalogOf(k))

\* C4: the collection handed over after a successful aggregation is the
\* concatenation of the providers' catalogs in registry order: its length
\* is the sum of the catalog lengths and the adapter at each position has
\* the name and description of the tool at that position and the launch
\* descriptor of the provider that declared it, same-named tools included.
C4_AggregationIsConcatenation ==
    returned.status = "ok"
    => /\ Len(returned.tools) = CatalogLengths(Len(server_params))
       /\ \A k \in DOMAIN server_params : \A i \in DOMAIN CatalogOf(k) :
             LET adapter == returned.tools[CatalogLengths(k - 1) + i]
             IN  /\ adapter.name = CatalogOf(k)[i].name
                 /\ adapter.description = CatalogOf(k)[i].description
                 /\ adapter.mcp_server_params = server_params[k]

C4_Witness ==
    /\ returned.status = "ok"
    /\ Len(returned.tools) = 3
    /\ returned.tools[1].name = "echo"
    /\ returned.tools[3].name = "echo"
    /\ returned.tools[1].mcp_server_params # returned.tools[3].mcp_server_params

\* a provider whose discovery failed: a transport fault in its Session, or
\* a catalog with a tool whose schema cannot be converted
DiscoveryFailed ==
    \E i \in DiscoverySessions :
        \/ sessions[i].state = "Failed"
        \/ /\ sessions[i].received # <<>>
           /\ \E j \in DOMAIN sessions[i].received[1].tools :
                 ~jsonschema_to_pydantic(sessions[i].received[1].tools[j].inputSchema).ok

\* C5: once the discovery of a provider has failed, the aggregation is
\* failing or has failed: no collection is or will be returned (the adapters
\* of earlier providers included), no Session exists for a later provider,
\* and no adapter can be invoked.
C5_AggregationFailsFast ==
    DiscoveryFailed
    => /\ agg.pc \in {"closing", "failed"}
       /\ returned = [status |-> "pending", tools |-> <<>>]
       /\ Len(sessions) = agg.k
       /\ \A t \in Tasks : tasks[t] = IdleTask

C5_Witness ==
    /\ agg.pc = "failed"
    /\ agg.k = 2
    /\ langchain_tools # <<>>
    /\ Len(server_params) = MaxProviders

\* C6: when the call exchange of an invocation has completed, the
\* invocation returns the content of the response if the response is a
\* success, and raises the remote-execution error with that content if the
\* response is flagged as an error.
C6_ResultOrRemoteError ==
    \A t \in Tasks :
        LET T == tasks[t]
        IN  (T.pc = "returned" /\ T.sid # 0 /\ sessions[T.sid].received # <<>>)
            => LET response == sessions[T.sid].received[1]
               IN  /\ T.result.content = response.content
                   /\ T.result.kind =
                        IF response.isError THEN "RemoteExecutionError" ELSE "ok"

C6_Witness ==
    /\ \E t \in Tasks : /\ tasks[t].pc = "returned"
                        /\ tasks[t].result.kind = "RemoteExecutionError"
                        /\ tasks[t].result.content = "c2"
    /\ \E t \in Tasks : /\ tasks[t].pc = "returned"
                        /\ tasks[t].result.kind = "ok"
                        /\ tasks[t].result.content = "c2"

\* C7: an invocation that has returned raised a transport error exactly
\* when its Session met a transport fault, and a remote-execution error
\* exactly when the provider's response was flagged as an error; a
\* validation error comes without any Session.
C7_TransportErrorIsDistinct ==
    \A t \in Tasks :
        LET T == tasks[t]
        IN  T.pc = "returned"
            => /\ T.result.kind = "TransportError"
                    <=> (T.sid # 0 /\ sessions[T.sid].state = "Failed")
               /\ T.result.kind = "RemoteExecutionError"
                    <=> (/\ T.sid # 0
                         /\ sessions[T.sid].state = "Closed"
                         /\ sessions[T.sid].received # <<>>
                         /\ sessions[T.sid].received[1].isError)
               /\ T.result.kind = "ValidationError" <=> T.sid = 0

C7_Witness ==
    /\ \E t \in Tasks : /\ tasks[t].pc = "returned"
                        /\ tasks[t].result = TransportError("handshake")
    /\ \E t \in Tasks : /\ tasks[t].pc = "returned"
                        /\ tasks[t].result = TransportError("launch")

\* C8: invocations that run at the same time have different Sessions; the
\* Session of an invocation was opened by it and carries only its requests,
\* and the response an invocation gets answers its own request.
C8_NoCrossTalk ==
    /\ \A t1, t2 \in Tasks :
          (t1 # t2 /\ tasks[t1].sid # 0 /\ tasks[t2].sid # 0)
          => tasks[t1].sid # tasks[t2].sid
    /\ \A t \in Tasks :
          LET T == tasks[t]
          IN  /\ T.sid # 0
                 => /\ sessions[T.sid].inv = T.inv
                    /\ sessions[T.sid].task = t
                    /\ \A j \in DOMAIN sessions[T.sid].sent :
                          sessions[T.sid].sent[j].inv = T.inv
                    /\ \A j \in DOMAIN sessions[T.sid].outbox :
                          sessions[T.sid].outbox[j].replyTo = T.inv
              /\ T.pending.kind \in {"ok", "RemoteExecutionError"}
                 => T.pending.replyTo = T.inv
              /\ T.result.kind \in {"ok", "RemoteExecutionError"}
                 => T.result.replyTo = T.inv

C8_Witness ==
    /\ \A t \in Tasks : tasks[t].pc = "inflight" /\ tasks[t].adapter = 1
    /\ sessions[tasks[1].sid].outbox # <<>>
    /\ sessions[tasks[2].sid].outbox # <<>>
    /\ Head(sessions[tasks[1].sid].outbox).content
         # Head(sessions[tasks[2].sid].outbox).content

\* C9: a cancelled invocation has its Session in Closing until the with
\* blocks are left; once it has ended its Session is Closed, the channel is
\* closed and the process is terminated.
C9_CancellationClosesSession ==
    \A t \in Tasks :
        LET T == tasks[t]
        IN  /\ T.pending.kind = "Cancelled"
               => (T.pc = "closing" /\ sessions[T.sid].state = "Closing")
            /\ T.result.kind = "Cancelled"
               => /\ T.pc = "returned"
                  /\ sessions[T.sid].state = "Closed"
                  /\ ~sessions[T.sid].proc
                  /\ ~sessions[T.sid].channel

C9_Witness ==
    /\ \E t \in Tasks : /\ tasks[t].result.kind = "Cancelled"
                        /\ tasks[t].spawned = 1
                        /\ sessions[tasks[t].sid].sent # <<>>
    /\ \E t \in Tasks : /\ tasks[t].result.kind = "Cancelled"
                        /\ tasks[t].spawned = 0

\* C10: a Session sends at most one request after the handshake; a Session
\* of discovery sends only a list request, a Session of an invocation only
\* a call request.
C10_OneRequestPerSession ==
    \A i \in DOMAIN sessions :
        /\ Len(sessions[i].sent) <= 1
        /\ \A j \in DOMAIN sessions[i].sent :
              sessions[i].sent[j].method =
                 IF sessions[i].kind = "discovery" THEN "tools/list" ELSE "tools/call"

C10_Witness ==
    /\ \E i \in DiscoverySessions : sessions[i].state = "Closed" /\ Len(sessions[i].sent) = 1
    /\ \E i \in InvokeSessions : sessions[i].state = "Closed" /\ Len(sessions[i].sent) = 1
    /\ \E i \in InvokeSessions : sessions[i].state = "Closed" /\ Len(sessions[i].sent) = 0

\* the Sessions an invocation has opened
SessionsOf(inv) == {i \in InvokeSessions : sessions[i].inv = inv}

\* C11 as stated: every invocation that has passed validation and returned
\* has spawned exactly one provider process.
C11_ExactlyOneSpawn ==
    \A t \in Tasks :
        (tasks[t].pc = "returned" /\ tasks[t].result.kind # "ValidationError")
        => tasks[t].spawned = 1

\* C11 (amended): an invocation that passes validation opens exactly one
\* Session, its own, and spawns at most one process: one once the launch
\* has succeeded, none when the launch failed or was cancelled. The process
\* is terminated when the invocation has returned, no Session belongs to
\* two invocations, and with no invocation running no Session is live.
C11_OneSessionOneProcessPerInvocation ==
    /\ \A t \in Tasks :
          LET T == tasks[t]
          IN  (T.inv > 0 /\ Offending(AdapterOf(T).args_schema, T.kwargs) = {})
              => /\ SessionsOf(T.inv) = {T.sid}
                 /\ T.spawned <= 1
                 /\ T.spawned = 0
                      => \/ T.pc = "launching"
                         \/ T.pending \in {TransportError("launch"), CancelledError}
                         \/ T.result \in {TransportError("launch"), CancelledError}
                 /\ T.spawned = 1
                      => /\ T.pc # "launching"
                         /\ TransportError("launch") \notin {T.pending, T.result}
                 /\ T.pc = "returned" => ~IsOpen(sessions[T.sid])
    /\ \A i \in InvokeSessions :
          /\ sessions[i].inv \in 1..invocations
          /\ \A j \in InvokeSessions : sessions[i].inv = sessions[j].inv => i = j
    /\ (\A t \in Tasks : tasks[t].pc \in {"idle", "returned"})
          => \A i \in InvokeSessions : ~sessions[i].proc

C11_Witness ==
    /\ invocations = MaxInvocations
    /\ \A t \in Tasks : tasks[t].pc = "returned"
    /\ \E t \in Tasks : tasks[t].result = TransportError("launch") /\ tasks[t].spawned = 0
    /\ \E t \in Tasks : tasks[t].result.kind = "ok" /\ tasks[t].spawned = 1

\* C12: a conversion error met while building one adapter does not make
\* the aggregation fail (the other adapters are still collected and
\* returned): the aggregation never ends failed on a conversion error.
C12_ConversionErrorIsLocal ==
    agg.pc = "failed" => agg.pending.kind # "ConversionError"

\* C13: once the collection is handed over, no step changes it, the
\* registry or an adapter; a step of one invocation (a failing one
\* included) changes no other invocation and no Session but its own, and a
\* new invocation starts on a fresh Session whatever ran before.
C13_InvocationFailureIsLocal ==
    [][ /\ returned.status = "ok"
           => /\ returned' = returned
              /\ langchain_tools' = langchain_tools
              /\ server_params' = server_params
              /\ agg' = agg
        /\ \A t \in Tasks :
              tasks'[t] # tasks[t]
              => /\ \A u \in Tasks \ {t} : tasks'[u] = tasks[u]
                 /\ \A i \in DOMAIN sessions :
                       sessions'[i] # sessions[i]
                       => (i = tasks[t].sid /\ sessions[i].inv = tasks[t].inv)
                 /\ tasks'[t].inv # tasks[t].inv
                    => \/ /\ tasks'[t].result.kind = "ValidationError"
                          /\ sessions' = sessions
                       \/ /\ tasks'[t].sid = Len(sessions) + 1
                          /\ sessions'[tasks'[t].sid] =
                               NewSession("invoke", tasks'[t].inv, t,
                                          returned.tools[tasks'[t].adapter].mcp_server_params)
      ]_vars

C13_Witness ==
    \E t, u \in Tasks :
        /\ tasks[t].pc = "returned"
        /\ tasks[t].result = TransportError("await")
        /\ tasks[u].pc = "returned"
        /\ tasks[u].inv > tasks[t].inv
        /\ tasks[u].adapter = tasks[t].adapter
        /\ tasks[u].result.kind = "ok"
        /\ tasks[u].sid > tasks[t].sid

\* ------------------------------------------- the launch descriptors alone
\* create_server_parameters over every configuration and environment
InitConfig == Start(ServerConfigs, Environs)
NextConfig == CreateServerParameters
SpecConfig == InitConfig /\ [][NextConfig]_vars

\* C14: once create_server_parameters has run there is one descriptor per
\* configured provider, in configuration order, with the configured command,
\* the configured args or the empty list, every configured env entry other
\* than PATH (an empty value replaced by the process's variable of that
\* name when it exists) and a PATH entry equal to the process's PATH.
C14_DescriptorsFromConfig ==
    agg.pc # "start"
    => /\ Len(server_params) = Len(server_config)
       /\ \A k \in DOMAIN server_config :
             LET c == server_config[k]
                 d == server_params[k]
                 cenv == IF "env" \in DOMAIN c THEN c["env"] ELSE <<>>
             IN  /\ d.command = c["command"]
                 /\ d.args = IF "args" \in DOMAIN c THEN c["args"] ELSE <<>>
                 /\ DOMAIN d.env = (DOMAIN cenv) \cup {"PATH"}
                 /\ \A key \in (DOMAIN cenv) \ {"PATH"} :
                       d.env[key] = IF cenv[key] = "" /\ key \in DOMAIN environ
                                    THEN environ[key] ELSE cenv[key]
                 /\ "PATH" \in DOMAIN environ
                 /\ d.env["PATH"] = environ["PATH"]

\* ------------------------------------------------- the Session's life cycle
\* the chain of states a Session walks when nothing goes wrong
ChainSteps ==
    {<<"Launching", "Handshaking">>, <<"Handshaking", "Ready">>, <<"Ready", "InFlight">>,
     <<"InFlight", "Closing">>, <<"Closing", "Closed">>}
Terminal == {"Closed", "Failed"}

\* a cancellation takes the Session to Closing from where it is suspended
CancelSteps == {<<from, "Closing">> : from \in {"Launching", "Handshaking", "Ready"}}

\* what one step may do to one Session: steps is the set of permitted
\* changes of state besides the one to Failed
LifeCycleStep(s, n, steps) ==
    /\ \/ n.state = s.state
       \/ <<s.state, n.state>> \in steps
       \/ s.state \notin Terminal /\ n.state = "Failed"
    /\ n.sent # s.sent
         => /\ s.state = "Ready" /\ n.state = "InFlight"
            /\ s.proc /\ s.channel
            /\ \E req \in {ListRequest} \cup
                          {CallRequest(name, kw, inv) : name \in {"echo", "ping", "raw"},
                                                        kw \in KwargsSet,
                                                        inv \in 1..MaxInvocations} :
                  n.sent = Append(s.sent, req)
    /\ s.state \in Terminal
         => /\ n.state = s.state /\ n.sent = s.sent /\ n.received = s.received

\* C16 as stated: a Session is created in Launching and every change of its
\* state is one step of the chain Launching, Handshaking, Ready, InFlight,
\* Closing, Closed, or a step from a non-terminal state to Failed; a request
\* is sent only from Ready, and nothing is sent and no state changes once
\* the Session is Closed or Failed.
C16_OnlyChainSteps ==
    [][\A i \in DOMAIN sessions' :
          IF i \in DOMAIN sessions
          THEN LifeCycleStep(sessions[i], sessions'[i], ChainSteps)
          ELSE sessions'[i].state = "Launching" /\ sessions'[i].sent = <<>>]_vars

\* C16 (amended): as C16, and besides the steps of the chain a Session goes
\* from Launching, Handshaking or Ready straight to Closing, which happens
\* exactly when the caller cancels the invocation that owns it.
C16_ChainStepsOrCancellation ==
    [][\A i \in DOMAIN sessions' :
          IF i \in DOMAIN sessions
          THEN /\ LifeCycleStep(sessions[i], sessions'[i], ChainSteps \cup CancelSteps)
               /\ <<sessions[i].state, sessions'[i].state>> \in CancelSteps
                    => /\ sessions[i].kind = "invoke"
                       /\ tasks'[sessions[i].task].pending = CancelledError
                       /\ tasks[sessions[i].task].sid = i
          ELSE sessions'[i].state = "Launching" /\ sessions'[i].sent = <<>>]_vars

\* a discovery Session that walked the whole chain, an invocation whose
\* handshake failed and sent nothing, and one cancelled before its request
C16_Witness ==
    /\ \E i \in DiscoverySessions :
          sessions[i].state = "Closed" /\ Len(sessions[i].sent) = 1
    /\ \E t, u \in Tasks :
          /\ tasks[t].pc = "returned" /\ tasks[t].result = TransportError("handshake")
          /\ sessions[tasks[t].sid].state = "Failed" /\ sessions[tasks[t].sid].sent = <<>>
          /\ tasks[u].pc = "returned" /\ tasks[u].result = CancelledError
          /\ tasks[u].spawned = 1
          /\ sessions[tasks[u].sid].state = "Closed" /\ sessions[tasks[u].sid].sent = <<>>

\* -------------------------------------------------- the order of discovery
\* C17 as stated: the adapters of a provider are built only after its
\* discovery Session has been closed; none exists while that Session is
\* still open.
C17_AdaptersBuiltAfterClose ==
    agg.mcp_tools # <<>> => ~IsOpen(sessions[agg.sid])

\* C17 (amended): the discovery of one provider opens the Session, sends
\* the list request, receives the catalog and builds the adapters while the
\* Session is still open (process alive, channel open); only then is the
\* Session closed and are the adapters handed to the aggregation.
C17_AdaptersBuiltBeforeClose ==
    /\ agg.mcp_tools # <<>>
         => LET s == sessions[agg.sid]
            IN  /\ agg.pc = "closing"
                /\ s.kind = "discovery"
                /\ s.state = "Closing" /\ s.proc /\ s.channel
                /\ s.sent = <<ListRequest>>
                /\ Len(s.received) = 1
                /\ Len(agg.mcp_tools) <= Len(s.received[1].tools)
                /\ \A i \in DOMAIN agg.mcp_tools :
                      /\ agg.mcp_tools[i].name = s.received[1].tools[i].name
                      /\ agg.mcp_tools[i].mcp_server_params = s.param
    /\ agg.pc \in {"loop", "done"}
         => /\ \A k \in 1..(agg.k - 1) :
                  /\ sessions[k].kind = "discovery"
                  /\ sessions[k].state = "Closed"
                  /\ ~IsOpen(sessions[k])
            /\ Len(langchain_tools) = CatalogLengths(agg.k - 1)

\* the second provider's adapters are built, its Session is not yet closed
C17_Witness ==
    /\ agg.k = 2
    /\ agg.pc = "closing"
    /\ Len(agg.mcp_tools) = 2
    /\ Len(langchain_tools) = 1
    /\ sessions[agg.sid].proc /\ sessions[agg.sid].channel

\* C18: providers are discovered one after another in registry order: the
\* discovery Sessions are those of providers 1, 2, ... in this order, at
\* most one of them is open, and whenever the Session of a provider exists
\* the Sessions of all providers before it are closed and their adapters are
\* already in the collection.
C18_DiscoveryIsSequential ==
    /\ Cardinality({i \in DiscoverySessions : IsOpen(sessions[i])}) <= 1
    /\ \A i \in DiscoverySessions :
          /\ i <= Len(server_params)
          /\ sessions[i].param = server_params[i]
          /\ \A j \in 1..(i - 1) :
                /\ j \in DiscoverySessions
                /\ sessions[j].state = "Closed"
                /\ ~IsOpen(sessions[j])
          /\ Len(langchain_tools) >= CatalogLengths(i - 1)
          /\ \A j \in 1..(i - 1) : \A n \in DOMAIN CatalogOf(j) :
                LET adapter == langchain_tools[CatalogLengths(j - 1) + n]
                IN  /\ adapter.name = CatalogOf(j)[n].name
                    /\ adapter.mcp_server_params = server_params[j]
    /\ agg.pc \in Waiting \cup {"closing"}
         => /\ agg.sid = agg.k
            /\ agg.sid = Len(sessions)
            /\ Len(langchain_tools) = CatalogLengths(agg.k - 1)

\* the second provider's Session is open, the first one's is closed and
\* its two adapters are in the collection
C18_Witness ==
    /\ agg.pc = "handshaking"
    /\ agg.sid = 2
    /\ sessions[2].state = "Handshaking" /\ sessions[2].proc
    /\ sessions[1].state = "Closed" /\ ~sessions[1].proc
    /\ Len(langchain_tools) = 2

\* the provider whose catalog holds position a of the returned collection,
\* and the position within that catalog
ProviderOf(a) ==
    CHOOSE k \in DOMAIN server_params :
        CatalogLengths(k - 1) < a /\ a <= CatalogLengths(k)
IndexIn(a) == a - CatalogLengths(ProviderOf(a) - 1)

\* C19: the Session of every invocation launches the provider from whose
\* catalog the invoked adapter was discovered, with that provider's launch
\* descriptor and no other, and what it sends is nothing before the
\* handshake has completed and then one call request with the operation
\* name found in that catalog and the arguments of the caller.
C19_AdapterBoundToItsProvider ==
    \A t \in Tasks :
        LET T == tasks[t]
        IN  T.sid # 0
            => LET k == ProviderOf(T.adapter)
                   op == CatalogOf(k)[IndexIn(T.adapter)]
                   s == sessions[T.sid]
                   call == CallRequest(op.name, T.kwargs, T.inv)
               IN  /\ s.kind = "invoke" /\ s.inv = T.inv
                   /\ s.param = server_params[k]
                   /\ \A j \in DOMAIN server_params : j # k => s.param # server_params[j]
                   /\ AdapterOf(T).mcp_server_params = server_params[k]
                   /\ AdapterOf(T).name = op.name
                   /\ s.sent \in {<<>>, <<call>>}
                   /\ T.pc \in {"launching", "handshaking", "ready"} => s.sent = <<>>
                   /\ (T.pc = "inflight" \/ T.result.kind \in {"ok", "RemoteExecutionError"})
                        => s.sent = <<call>>

\* both providers declare echo; the echo of the second one is invoked and
\* answered by the second provider, the echo of the first one by the first
C19_Witness ==
    /\ Len(server_params) = 2
    /\ returned.status = "ok"
    /\ Len(returned.tools) = 3
    /\ returned.tools[1].name = "echo" /\ returned.tools[3].name = "echo"
    /\ \E t, u \in Tasks :
          /\ tasks[t].adapter = 3 /\ tasks[t].result.kind = "ok"
          /\ sessions[tasks[t].sid].param = server_params[2]
          /\ tasks[u].adapter = 1 /\ tasks[u].result.kind = "ok"
          /\ sessions[tasks[u].sid].param = server_params[1]

\* ------------------------------------------------ progress without timeout
\* the steps of one invocation: the bridge's own and the provider's answer
\* or fault at the await the invocation is suspended at
TaskProgress(t) ==
    \/ TaskLaunch(t)
    \/ TaskInitialize(t)
    \/ TaskSend(t)
    \/ \E sid \in DOMAIN sessions : sid = tasks[t].sid /\ ProviderCall(sid)
    \/ TaskReceive(t)
    \/ TaskFault(t)
    \/ TaskExit(t)

\* the steps of the aggregation, the provider's answer or fault included
DiscProgress ==
    \/ CreateServerParameters
    \/ DiscOpen
    \/ DiscLaunch
    \/ DiscInitialize
    \/ DiscSendList
    \/ \E sid \in DOMAIN sessions : sid = agg.sid /\ ProviderList(sid)
    \/ DiscReceive
    \/ DiscFault
    \/ DiscExit
    \/ AggReturn

\* one configured provider; the event loop runs every coroutine that can
\* take a step, and the provider at every await answers or faults
FairInit == Start({SubSeq(MainConfig, 1, 1)}, {MainEnviron})
FairSpec ==
    /\ FairInit
    /\ [][Next]_vars
    /\ WF_vars(DiscProgress)
    /\ \A t \in Tasks : WF_vars(TaskProgress(t))

\* C20: when the provider at every await answers or faults, every
\* invocation and every discovery that was started returns with its Session
\* closed; and an invocation leaves Handshaking or InFlight only by the
\* provider's answer, by a transport fault or by the caller's cancellation,
\* never by a timeout of the bridge.
C20_NoTimeoutOfItsOwn ==
    /\ \A t \in Tasks :
          (tasks[t].pc \in Waiting \cup {"closing"})
          ~> (/\ tasks[t].pc = "returned"
              /\ \A i \in DOMAIN sessions : i = tasks[t].sid => ~IsOpen(sessions[i]))
    /\ (agg.pc \in Waiting \cup {"closing"})
          ~> (/\ agg.pc \in {"loop", "done", "failed"}
              /\ \A i \in DiscoverySessions : ~IsOpen(sessions[i]))
    /\ [][\A t \in Tasks :
             (tasks[t].pc \in {"handshaking", "inflight"} /\ tasks'[t] # tasks[t])
             => LET s == sessions[tasks[t].sid]
                    n == sessions'[tasks[t].sid]
                IN  \/ /\ tasks[t].pc = "handshaking" /\ tasks'[t].pc = "ready"
                       /\ s.proc /\ n.state = "Ready"
                    \/ /\ tasks[t].pc = "inflight" /\ tasks'[t].pc = "closing"
                       /\ s.outbox # <<>>
                       /\ n.received = Append(s.received, Head(s.outbox))
                       /\ tasks'[t].pending.kind \in {"ok", "RemoteExecutionError"}
                    \/ /\ tasks'[t].pc = "closing"
                       /\ tasks'[t].pending = TransportError(StepOf(tasks[t].pc))
                       /\ n.state = "Failed"
                    \/ /\ tasks'[t].pc = "closing"
                       /\ tasks'[t].pending = CancelledError]_vars

\* one invocation was answered and one met a fault in the handshake; both
\* have returned and their Sessions are closed
C20_Witness ==
    /\ agg.pc = "done"
    /\ \A i \in DOMAIN sessions : ~IsOpen(sessions[i])
    /\ \E t, u \in Tasks :
          /\ tasks[t].pc = "returned" /\ tasks[t].result.kind = "ok"
          /\ Len(sessions[tasks[t].sid].received) = 1
          /\ tasks[u].pc = "returned" /\ tasks[u].result = TransportError("handshake")

====
